---- MODULE Spec2Model ----
(***************************************************************************)
(* Model of forte/data/ontology/core.py: Entry, BaseLink and BaseGroup,    *)
(* together with the container ("pack") interface they call into.          *)
(*                                                                         *)
(* An object is a record [cls, d] where d is the instance dictionary       *)
(* (vars(self)): a function from attribute names to values.  The heap      *)
(* `objs` is the sequence of the objects the program holds a reference to. *)
(***************************************************************************)
EXTENDS Integers, Sequences, FiniteSets, TLC

\* ---------------------------------------------------------------- bounds
MaxId == 2        \* ids the allocator of an empty container hands out
MaxObjs == 2      \* objects the program creates in an empty container
MaxNew == 1       \* objects the program adds to a populated container
MaxKw == 2        \* entries of one set_fields mapping
MaxBulk == 2      \* candidates of one add_members call

VARIABLES
    objs,              \* the heap: Seq([cls, d])
    next_id,           \* container: the id get_next_id() returns next
    creation_records,  \* container: ids passed to add_entry_creation_record
    field_records,     \* container: (id, field) pairs passed to add_field_record
    pickled,           \* snapshots produced by __getstate__, not yet rebuilt
    ret                \* the last call: operation, receiver, inputs, outcome

vars == <<objs, next_id, creation_records, field_records, pickled, ret>>

\* ------------------------------------------------------- values and types
None == 0          \* Python None, for integer-valued and reference slots
ThePack == 1       \* the one container of the model

\* Concrete entry types.  A and A1 are plain entries (A1 derives from A),
\* G is a group whose MemberType is A, L is a link.
EntryClasses == {"A", "A1"}
GroupClasses == {"G"}
LinkClasses == {"L"}

Bases(cls) ==
    CASE cls = "A"  -> {"A", "Entry"}
      [] cls = "A1" -> {"A1", "A", "Entry"}
      [] cls = "G"  -> {"G", "BaseGroup", "Entry"}
      [] cls = "L"  -> {"L", "BaseLink", "Entry"}

isinstance(o, T) == T \in Bases(o.cls)

MemberType(cls) == "A"

\* numpy arrays are [dtype, vals]; Python lists of numbers are [kind, vals].
np_empty == [dtype |-> "float64", vals |-> <<>>]

tolist(arr) ==
    [kind |-> IF arr.dtype \in {"float64", "float32"} THEN "float" ELSE "int",
     vals |-> arr.vals]

np_array_of_list(lst) ==
    [dtype |-> IF lst.vals = <<>> \/ lst.kind = "float" THEN "float64" ELSE "int64",
     vals |-> lst.vals]

Range(s) == {s[i] : i \in DOMAIN s}

\* ------------------------------------------------------------- container
\* The container allocates ids in increasing order, and keeps what the entries
\* report to it: the creation records in the order of the calls, the field
\* records as a set.
get_next_id == next_id

IsCreation(c) == c[1] = "add_entry_creation_record"
IsFieldRecord(c) == c[1] = "add_field_record"

creation_ids(calls) ==
    LET recs == SelectSeq(calls, IsCreation) IN [i \in DOMAIN recs |-> recs[i][2]]

field_pairs(calls) ==
    {<<calls[i][2], calls[i][3]>> : i \in {j \in DOMAIN calls : IsFieldRecord(calls[j])}}

\* ----------------------------------------------------------------- Entry
EmptyDict == [k \in {} |-> None]

\* The assignments of Entry.__init__ (lines 64-74) on an instance dictionary:
\* the four base attributes are (re)bound, every other attribute is kept.
entry_init(d, tid) ==
    [k \in {"_tid", "_embedding", "_Entry__pack", "_Entry__field_modified"} |->
        CASE k = "_tid" -> tid
          [] k = "_embedding" -> np_empty
          [] k = "_Entry__pack" -> ThePack
          [] k = "_Entry__field_modified" -> {}] @@ d

\* What the concrete type's own constructor does after the base constructor
\* returned: a plain entry subtype declares one field f, a group its member set.
subtype_init(cls, d) ==
    IF cls \in GroupClasses
    THEN [k \in DOMAIN d \cup {"_members"} |-> IF k = "_members" THEN <<>> ELSE d[k]]
    ELSE IF cls \in LinkClasses
    THEN [k \in DOMAIN d \cup {"_parent", "_child"} |->
             IF k \in {"_parent", "_child"} THEN None ELSE d[k]]
    ELSE [k \in DOMAIN d \cup {"f"} |-> IF k = "f" THEN None ELSE d[k]]

\* Variant of init_calls: the creation is recorded before validate is asked.
init_calls_record_first(tid, ok) ==
    IF ok
    THEN <<<<"get_next_id", tid, "">>, <<"add_entry_creation_record", tid, "">>,
           <<"validate", tid, "">>>>
    ELSE <<<<"get_next_id", tid, "">>, <<"add_entry_creation_record", tid, "">>,
           <<"validate", tid, "">>>>

\* The container calls of one run of Entry.__init__, in program order.
\* validate raises when the container rejects the entry, and line 77 is then
\* not reached.
init_calls(tid, ok) ==
    IF ok
    THEN <<<<"get_next_id", tid, "">>, <<"validate", tid, "">>,
           <<"add_entry_creation_record", tid, "">>>>
    ELSE <<<<"get_next_id", tid, "">>, <<"validate", tid, "">>>>

has_pack(d) == "_Entry__pack" \in DOMAIN d /\ d["_Entry__pack"] # None

\* The value a caller passes for attribute `name`: of the attribute's declared
\* type (set_fields docstring, lines 165-167), here the integer v.
ValueFor(name, v) == v

\* The names the callers of the model pass: the id, a declared field of the
\* plain entry subtypes, and a name no type declares.
FieldNames == {"_tid", "f", "bad"}

\* Variant of set_fields_item: the assignment is made and no record written.
set_fields_item_unrecorded(st, name, v) ==
    IF name \notin DOMAIN st.d
    THEN [st EXCEPT !.err = "UnknownAttribute"]
    ELSE [st EXCEPT !.d = [st.d EXCEPT ![name] = ValueFor(name, v)]]

\* One iteration of the loop of set_fields (lines 170-185) on the running
\* state st = [d, audit, err]: the membership test, the assignment, the record.
set_fields_item(st, name, v) ==
    IF name \notin DOMAIN st.d
    THEN [st EXCEPT !.err = "UnknownAttribute"]
    ELSE LET d1 == [st.d EXCEPT ![name] = ValueFor(name, v)] IN
         IF has_pack(d1)
         THEN [d |-> d1, audit |-> Append(st.audit, <<"add_field_record", d1["_tid"], name>>),
               err |-> "none"]
         ELSE [d |-> d1, audit |-> st.audit, err |-> "AttributeError"]

RECURSIVE set_fields_loop(_, _, _)
set_fields_loop(st, kw, i) ==
    IF i > Len(kw) \/ st.err # "none"
    THEN st
    ELSE set_fields_loop(set_fields_item(st, kw[i][1], kw[i][2]), kw, i + 1)

set_fields(d, kw) == set_fields_loop([d |-> d, audit |-> <<>>, err |-> "none"], kw, 1)

\* Keyword mappings: distinct names, in the order the caller wrote them.  An id
\* is given any of the values the container has handed out so far; for the
\* other names one value is enough.
ValuesOf(name) == IF name = "_tid" THEN 1..(next_id - 1) ELSE {1}

Items == UNION {{<<name, v>> : v \in ValuesOf(name)} : name \in FieldNames}

Kwargs ==
    UNION {{kw \in [1..n -> Items] :
               \A i, j \in 1..n : i # j => kw[i][1] # kw[j][1]} : n \in 1..MaxKw}

\* ret: the operation last called, its receiver, its bulk argument, how it
\* ended, how many of its items it applied before it returned or raised, the
\* container calls it made in program order as <<method, id, field>>, and what
\* it returned.
NoRet == [op |-> "none", self |-> 0, args |-> <<>>, err |-> "none", n |-> 0,
          calls |-> <<>>, res |-> {}]

Init ==
    /\ objs = <<>>
    /\ next_id = 1
    /\ creation_records = <<>>
    /\ field_records = {}
    /\ pickled = <<>>
    /\ ret = NoRet

\* Entry.__init__ through a plain entry subtype: allocate, validate, record.
\* A constructor that raises hands no object to its caller.
ConstructEntry(cls, ok) ==
    /\ LET tid == get_next_id
           calls == init_calls(tid, ok) IN
       /\ next_id' = next_id + 1
       /\ creation_records' = creation_records \o creation_ids(calls)
       /\ IF ok
          THEN /\ objs' = Append(objs, [cls |-> cls,
                                 d |-> subtype_init(cls, entry_init(EmptyDict, tid))])
               /\ ret' = [NoRet EXCEPT !.op = "construct", !.self = Len(objs) + 1,
                                       !.calls = calls]
          ELSE /\ UNCHANGED objs
               /\ ret' = [NoRet EXCEPT !.op = "construct", !.err = "AdmissionRejected",
                                       !.calls = calls]
    /\ UNCHANGED <<field_records, pickled>>

\* Entry.reset: self.__init__(self.__pack) on the live object.  Reading the
\* back-reference fails when the attribute is missing; get_next_id fails on
\* None.  When validate raises, the base attributes are already rebound and
\* the subtype's own are not.
Reset(o, ok) ==
    /\ o \in DOMAIN objs
    /\ IF ~has_pack(objs[o].d)
       THEN /\ ret' = [NoRet EXCEPT !.op = "reset", !.self = o, !.err = "AttributeError"]
            /\ UNCHANGED <<objs, next_id, creation_records>>
       ELSE /\ LET tid == get_next_id
                   calls == init_calls(tid, ok)
                   d1 == entry_init(objs[o].d, tid) IN
               /\ next_id' = next_id + 1
               /\ creation_records' = creation_records \o creation_ids(calls)
               /\ objs' = [objs EXCEPT ![o].d =
                              IF ok THEN subtype_init(objs[o].cls, d1) ELSE d1]
               /\ ret' = [NoRet EXCEPT !.op = "reset", !.self = o, !.calls = calls,
                             !.err = IF ok THEN "none" ELSE "AdmissionRejected"]
    /\ UNCHANGED <<field_records, pickled>>

\* Entry.set_fields(**kw).
SetFields(o, kw) ==
    /\ o \in DOMAIN objs
    /\ \E r \in {set_fields(objs[o].d, kw)} :
       /\ objs' = [objs EXCEPT ![o].d = r.d]
       /\ field_records' = field_records \cup field_pairs(r.audit)
       /\ ret' = [NoRet EXCEPT !.op = "set_fields", !.self = o, !.args = kw,
                               !.err = r.err, !.n = Len(r.audit), !.calls = r.audit]
    /\ UNCHANGED <<next_id, creation_records, pickled>>

\* --------------------------------------------------------------- BaseGroup
\* Variant of set_add: a list append, which keeps repeats.
set_add_list(m, x, front) == IF front THEN <<x>> \o m ELSE Append(m, x)

\* set.add on a member set kept in its iteration order.  Where a new element
\* lands in that order is not the program's choice: before or after the rest.
set_add(m, x, front) ==
    IF x \in Range(m) THEN m
    ELSE IF front THEN <<x>> \o m ELSE Append(m, x)

\* Variant of add_members_item: the tid is inserted before the type is tested.
add_members_item_late(st, T, member, front) ==
    IF ~isinstance(member, T)
    THEN [st EXCEPT !.m = IF member.d["_tid"] \in Range(st.m) THEN st.m
                          ELSE Append(st.m, member.d["_tid"]),
                    !.err = "TypeMismatch"]
    ELSE [st EXCEPT !.m = IF member.d["_tid"] \in Range(st.m) THEN st.m
                          ELSE IF front THEN <<member.d["_tid"]>> \o st.m
                          ELSE Append(st.m, member.d["_tid"]),
                    !.n = st.n + 1]

\* Variant of add_members_loop: every candidate is looked at, the valid ones
\* after an invalid one are added too, and the error is raised at the end.
RECURSIVE add_members_loop_all(_, _, _, _, _)
add_members_loop_all(st, T, members, front, i) ==
    IF i > Len(members)
    THEN st
    ELSE add_members_loop_all(
             IF ~isinstance(members[i], T)
             THEN [st EXCEPT !.err = "TypeMismatch"]
             ELSE [st EXCEPT !.m = IF members[i].d["_tid"] \in Range(st.m) THEN st.m
                                   ELSE Append(st.m, members[i].d["_tid"])],
             T, members, front, i + 1)

\* One iteration of the loop of add_members (lines 317-323) on the running
\* state st = [m, err, n]: the isinstance test, then the insertion of the tid.
add_members_item(st, T, member, front) ==
    IF ~isinstance(member, T)
    THEN [st EXCEPT !.err = "TypeMismatch"]
    ELSE [st EXCEPT !.m = set_add(st.m, member.d["_tid"], front), !.n = st.n + 1]

RECURSIVE add_members_loop(_, _, _, _, _)
add_members_loop(st, T, members, front, i) ==
    IF i > Len(members) \/ st.err # "none"
    THEN st
    ELSE add_members_loop(add_members_item(st, T, members[i], front),
                          T, members, front, i + 1)

add_members(cls, m, members, front) ==
    add_members_loop([m |-> m, err |-> "none", n |-> 0],
                     MemberType(cls), members, front, 1)

\* Candidate lists: objects of the heap, repeats allowed.
Candidates(heap) ==
    UNION {[1..n -> DOMAIN heap] : n \in 0..MaxBulk}

\* BaseGroup.__init__(pack, members): the base constructor, the empty member
\* set, then add_members.  A TypeError leaves the creation record behind.
ConstructGroup(cls, ok, cands) ==
    /\ LET tid == get_next_id
           calls == init_calls(tid, ok)
           d0 == subtype_init(cls, entry_init(EmptyDict, tid))
       IN
       \E r \in {add_members(cls, d0["_members"],
                             [i \in DOMAIN cands |-> objs[cands[i]]], front) :
                     front \in BOOLEAN} :
       /\ next_id' = next_id + 1
       /\ creation_records' = creation_records \o creation_ids(calls)
       /\ IF ~ok
          THEN /\ UNCHANGED objs
               /\ ret' = [NoRet EXCEPT !.op = "construct_group", !.calls = calls,
                                       !.args = cands, !.err = "AdmissionRejected"]
          ELSE IF r.err = "none"
          THEN /\ objs' = Append(objs, [cls |-> cls,
                                        d |-> [d0 EXCEPT !["_members"] = r.m]])
               /\ ret' = [NoRet EXCEPT !.op = "construct_group", !.calls = calls,
                                       !.args = cands, !.self = Len(objs) + 1,
                                       !.n = r.n]
          ELSE /\ UNCHANGED objs
               /\ ret' = [NoRet EXCEPT !.op = "construct_group", !.calls = calls,
                                       !.args = cands, !.err = r.err, !.n = r.n]
    /\ UNCHANGED <<field_records, pickled>>

\* BaseGroup.add_members(members).
AddMembers(g, cands) ==
    /\ g \in DOMAIN objs
    /\ objs[g].cls \in GroupClasses
    /\ \E r \in {add_members(objs[g].cls, objs[g].d["_members"],
                             [i \in DOMAIN cands |-> objs[cands[i]]], front) :
                     front \in BOOLEAN} :
       /\ objs' = [objs EXCEPT ![g].d["_members"] = r.m]
       /\ ret' = [NoRet EXCEPT !.op = "add_members", !.self = g, !.args = cands,
                               !.err = r.err, !.n = r.n]
    /\ UNCHANGED <<next_id, creation_records, field_records, pickled>>

\* BaseGroup.add_member(member): add_members([member]).
AddMember(g, c) ==
    /\ g \in DOMAIN objs
    /\ objs[g].cls \in GroupClasses
    /\ c \in DOMAIN objs
    /\ \E r \in {add_members(objs[g].cls, objs[g].d["_members"], <<objs[c]>>, front) :
                     front \in BOOLEAN} :
       /\ objs' = [objs EXCEPT ![g].d["_members"] = r.m]
       /\ ret' = [NoRet EXCEPT !.op = "add_member", !.self = g, !.args = <<c>>,
                               !.err = r.err, !.n = r.n]
    /\ UNCHANGED <<next_id, creation_records, field_records, pickled>>

\* BaseGroup.get_members (lines 352-365): the pack property reads the
\* back-reference attribute, which must exist; None is the unattached case.
get_entry(t) ==
    IF \E o \in DOMAIN objs : has_pack(objs[o].d) /\ objs[o].d["_tid"] = t
    THEN CHOOSE o \in DOMAIN objs : has_pack(objs[o].d) /\ objs[o].d["_tid"] = t
    ELSE 0

get_members(d) ==
    IF "_Entry__pack" \notin DOMAIN d
    THEN [err |-> "AttributeError", res |-> {}]
    ELSE IF d["_Entry__pack"] = None
    THEN [err |-> "Unattached", res |-> {}]
    ELSE IF \E m \in Range(d["_members"]) : get_entry(m) = 0
    THEN [err |-> "ResolutionFailure", res |-> {}]
    ELSE [err |-> "none", res |-> {get_entry(m) : m \in Range(d["_members"])}]

GetMembers(g) ==
    /\ g \in DOMAIN objs
    /\ objs[g].cls \in GroupClasses
    /\ LET r == get_members(objs[g].d) IN
       ret' = [NoRet EXCEPT !.op = "get_members", !.self = g, !.err = r.err,
                            !.res = r.res]
    /\ UNCHANGED <<objs, next_id, creation_records, field_records, pickled>>

\* ------------------------------------------------- Entry, the rest of it
\* Entry.set_pack(pack): binds the back-reference, creating it if missing.
set_pack(d, pack) ==
    [k \in DOMAIN d \cup {"_Entry__pack"} |-> IF k = "_Entry__pack" THEN pack ELSE d[k]]

SetPack(o, pack) ==
    /\ o \in DOMAIN objs
    /\ objs' = [objs EXCEPT ![o].d = set_pack(objs[o].d, pack)]
    /\ ret' = [NoRet EXCEPT !.op = "set_pack", !.self = o]
    /\ UNCHANGED <<next_id, creation_records, field_records, pickled>>

\* The embedding setter (lines 124-132): np.array(embed).  An array keeps its
\* dtype, a list of numbers takes the dtype numpy infers.
np_array(embed) ==
    IF "dtype" \in DOMAIN embed THEN embed ELSE np_array_of_list(embed)

EmbedInputs ==
    {[dtype |-> "float32", vals |-> <<1, 2>>],
     [kind |-> "int", vals |-> <<2, 1>>]}

SetEmbedding(o, embed) ==
    /\ o \in DOMAIN objs
    /\ objs' = [objs EXCEPT ![o].d["_embedding"] = np_array(embed)]
    /\ ret' = [NoRet EXCEPT !.op = "set_embedding", !.self = o]
    /\ UNCHANGED <<next_id, creation_records, field_records, pickled>>

\* Entry.__getstate__ (lines 100-105): a copy of the dictionary with the
\* embedding as a list and without the two private attributes; dict.pop of a
\* missing key raises KeyError.
getstate(d) ==
    IF "_Entry__pack" \notin DOMAIN d \/ "_Entry__field_modified" \notin DOMAIN d
    THEN [err |-> "KeyError", state |-> EmptyDict]
    ELSE [err |-> "none",
          state |-> [k \in DOMAIN d \ {"_Entry__pack", "_Entry__field_modified"} |->
                        IF k = "_embedding" THEN tolist(d[k]) ELSE d[k]]]

\* Entry.__setstate__ (lines 110-113) on an instance dictionary d.
setstate(d, state) ==
    [k \in DOMAIN state |->
        IF k = "_embedding" THEN np_array_of_list(state[k]) ELSE state[k]]
    @@ [k \in DOMAIN d \cup {"_Entry__field_modified"} |->
        IF k = "_Entry__field_modified" THEN {} ELSE d[k]]

\* Serialization: __getstate__ of a live object; the snapshot replaces the one
\* held so far.  The object itself is left as it was.
GetState(o) ==
    /\ o \in DOMAIN objs
    /\ LET r == getstate(objs[o].d) IN
       /\ pickled' = IF r.err = "none"
                     THEN <<[cls |-> objs[o].cls, state |-> r.state]>>
                     ELSE pickled
       /\ ret' = [NoRet EXCEPT !.op = "getstate", !.self = o, !.err = r.err]
    /\ UNCHANGED <<objs, next_id, creation_records, field_records>>

\* Deserialization: a new object of the snapshot's type, made without the
\* constructor, takes the snapshot through __setstate__.
SetState ==
    /\ pickled # <<>>
    /\ objs' = Append(objs, [cls |-> pickled[1].cls,
                             d |-> setstate(EmptyDict, pickled[1].state)])
    /\ ret' = [NoRet EXCEPT !.op = "setstate", !.self = Len(objs) + 1]
    /\ UNCHANGED <<next_id, creation_records, field_records, pickled>>

\* ---------------------------------------------------------------- BaseLink
\* The concrete link type keeps each endpoint by its tid and resolves it
\* through the container.
set_endpoint(d, key, e) == [d EXCEPT ![key] = e.d["_tid"]]

get_endpoint(d, key) ==
    IF ~has_pack(d) \/ d[key] = None THEN 0 ELSE get_entry(d[key])

\* BaseLink.__init__(pack, parent, child) (lines 214-225); 0 stands for an
\* endpoint that is not given.
ConstructLink(cls, ok, p, c) ==
    /\ LET tid == get_next_id
           calls == init_calls(tid, ok)
           d0 == subtype_init(cls, entry_init(EmptyDict, tid))
           d1 == IF p # 0 THEN set_endpoint(d0, "_parent", objs[p]) ELSE d0
           d2 == IF c # 0 THEN set_endpoint(d1, "_child", objs[c]) ELSE d1
       IN
       /\ next_id' = next_id + 1
       /\ creation_records' = creation_records \o creation_ids(calls)
       /\ IF ok
          THEN /\ objs' = Append(objs, [cls |-> cls, d |-> d2])
               /\ ret' = [NoRet EXCEPT !.op = "construct_link", !.calls = calls,
                                       !.self = Len(objs) + 1]
          ELSE /\ UNCHANGED objs
               /\ ret' = [NoRet EXCEPT !.op = "construct_link", !.calls = calls,
                                       !.err = "AdmissionRejected"]
    /\ UNCHANGED <<field_records, pickled>>

\* ------------------------------------------------------ equality and hash
\* A hash is modelled by the value that is hashed: equal values, equal hash.
entry_eq(x, y) == <<x.cls, x.d["_tid"]>> = <<y.cls, y.d["_tid"]>>
entry_hash(x) == <<x.cls, x.d["_tid"]>>

\* BaseGroup.__eq__ compares the member sets, BaseGroup.__hash__ hashes the
\* tuple the member set iterates to.
group_eq(x, y) ==
    x.cls = y.cls /\ Range(x.d["_members"]) = Range(y.d["_members"])
group_hash(x) == <<x.cls, x.d["_members"]>>

\* BaseLink.__eq__ / __hash__ over the resolved endpoints, which are plain
\* entries here.
link_eq(x, y) ==
    /\ x.cls = y.cls
    /\ entry_eq(objs[get_endpoint(x.d, "_parent")], objs[get_endpoint(y.d, "_parent")])
    /\ entry_eq(objs[get_endpoint(x.d, "_child")], objs[get_endpoint(y.d, "_child")])
link_hash(x) ==
    <<x.cls, entry_hash(objs[get_endpoint(x.d, "_parent")]),
             entry_hash(objs[get_endpoint(x.d, "_child")])>>

\* ------------------------------------------------------- specifications
\* Room for one more object and one more id.
Fits == Len(objs) < MaxObjs /\ next_id <= MaxId

\* k objects are there at Init, with the ids 1..k.
FitsNew(k) == Len(objs) < k + MaxNew /\ next_id <= k + MaxNew

Groups == {o \in DOMAIN objs : objs[o].cls \in GroupClasses}

PlainEntries == {o \in DOMAIN objs : objs[o].cls \in EntryClasses}

\* Constructions and resets, from the empty container.
NextCreate ==
    \/ \E cls \in EntryClasses, ok \in BOOLEAN : Fits /\ ConstructEntry(cls, ok)
    \/ \E cls \in GroupClasses, ok \in BOOLEAN, cands \in Candidates(objs) :
           Fits /\ ConstructGroup(cls, ok, cands)
    \/ \E cls \in LinkClasses, ok \in BOOLEAN, p, c \in PlainEntries \cup {0} :
           Fits /\ ConstructLink(cls, ok, p, c)
    \/ \E o \in DOMAIN objs, ok \in BOOLEAN : next_id <= MaxId /\ Reset(o, ok)

\* With set_pack.
Next ==
    \/ NextCreate
    \/ \E o \in DOMAIN objs, pack \in {None, ThePack} : SetPack(o, pack)

Spec == Init /\ [][Next]_vars

\* With set_fields.
NextFields ==
    \/ NextCreate
    \/ \E o \in DOMAIN objs, kw \in Kwargs : SetFields(o, kw)

SpecFields == Init /\ [][NextFields]_vars

\* The bulk operations on one entry and one group: the container after
\* a = A(pack), g = G(pack).
InitBulk ==
    /\ objs = <<[cls |-> "A", d |-> subtype_init("A", entry_init(EmptyDict, 1))],
                [cls |-> "G", d |-> subtype_init("G", entry_init(EmptyDict, 2))]>>
    /\ next_id = 3
    /\ creation_records = <<1, 2>>
    /\ field_records = {}
    /\ pickled = <<>>
    /\ ret = [NoRet EXCEPT !.op = "construct_group", !.self = 2,
                           !.calls = init_calls(2, TRUE)]

NextBulk ==
    \/ \E o \in DOMAIN objs, kw \in Kwargs : SetFields(o, kw)
    \/ \E g \in Groups, cands \in Candidates(objs) : AddMembers(g, cands)

SpecBulk == InitBulk /\ [][NextBulk]_vars

\* Groups over two entries and a link: the container after A(pack), A1(pack),
\* L(pack).
InitGroup ==
    /\ objs = <<[cls |-> "A", d |-> subtype_init("A", entry_init(EmptyDict, 1))],
                [cls |-> "A1", d |-> subtype_init("A1", entry_init(EmptyDict, 2))],
                [cls |-> "L", d |-> subtype_init("L", entry_init(EmptyDict, 3))]>>
    /\ next_id = 4
    /\ creation_records = <<1, 2, 3>>
    /\ field_records = {}
    /\ pickled = <<>>
    /\ ret = [NoRet EXCEPT !.op = "construct_link", !.self = 3,
                           !.calls = init_calls(3, TRUE)]

NextGroup ==
    \/ \E cls \in GroupClasses, ok \in BOOLEAN, cands \in Candidates(objs) :
           FitsNew(3) /\ ConstructGroup(cls, ok, cands)
    \/ \E g \in Groups, c \in DOMAIN objs : AddMember(g, c)
    \/ \E g \in Groups, cands \in Candidates(objs) : AddMembers(g, cands)

SpecGroup == InitGroup /\ [][NextGroup]_vars

\* Equality and hashing: the container after a = A(pack), b = A1(pack),
\* G(pack, [a, b]), L(pack, a, b).
InitEq ==
    /\ objs = <<[cls |-> "A", d |-> subtype_init("A", entry_init(EmptyDict, 1))],
                [cls |-> "A1", d |-> subtype_init("A1", entry_init(EmptyDict, 2))],
                [cls |-> "G",
                 d |-> [subtype_init("G", entry_init(EmptyDict, 3))
                           EXCEPT !["_members"] = <<1, 2>>]],
                [cls |-> "L",
                 d |-> [subtype_init("L", entry_init(EmptyDict, 4))
                           EXCEPT !["_parent"] = 1, !["_child"] = 2]]>>
    /\ next_id = 5
    /\ creation_records = <<1, 2, 3, 4>>
    /\ field_records = {}
    /\ pickled = <<>>
    /\ ret = [NoRet EXCEPT !.op = "construct_link", !.self = 4,
                           !.calls = init_calls(4, TRUE)]

NextEq ==
    \/ \E cls \in GroupClasses, ok \in BOOLEAN, cands \in Candidates(objs) :
           FitsNew(4) /\ ConstructGroup(cls, ok, cands)
    \/ \E cls \in LinkClasses, ok \in BOOLEAN, p, c \in PlainEntries \cup {0} :
           FitsNew(4) /\ ConstructLink(cls, ok, p, c)
    \/ \E g \in Groups, c \in DOMAIN objs : AddMember(g, c)

SpecEq == InitEq /\ [][NextEq]_vars

\* Serialization: the container after a = A(pack), a.set_fields(f=1),
\* g = G(pack, [a]).
InitSerial ==
    /\ objs = <<[cls |-> "A",
                 d |-> [subtype_init("A", entry_init(EmptyDict, 1)) EXCEPT !["f"] = 1]],
                [cls |-> "G",
                 d |-> [subtype_init("G", entry_init(EmptyDict, 2))
                           EXCEPT !["_members"] = <<1>>]]>>
    /\ next_id = 3
    /\ creation_records = <<1, 2>>
    /\ field_records = {<<1, "f">>}
    /\ pickled = <<>>
    /\ ret = [NoRet EXCEPT !.op = "construct_group", !.self = 2, !.n = 1,
                           !.calls = init_calls(2, TRUE)]

NextSerial ==
    \/ \E o \in DOMAIN objs, e \in EmbedInputs : SetEmbedding(o, e)
    \/ \E o \in DOMAIN objs, pack \in {None, ThePack} : SetPack(o, pack)
    \/ \E o \in DOMAIN objs : GetState(o)
    \/ Len(objs) < 2 + MaxNew /\ SetState
    \/ \E g \in DOMAIN objs : GetMembers(g)

SpecSerial == InitSerial /\ [][NextSerial]_vars

\* ================================================================ claims
\* The index of the first name of kw that d does not hold, Len(kw) + 1 if
\* there is none; the names before it are the ones a fail-fast loop reaches.
FirstBad(d, kw) ==
    IF \E i \in DOMAIN kw : kw[i][1] \notin DOMAIN d
    THEN CHOOSE i \in DOMAIN kw :
            /\ kw[i][1] \notin DOMAIN d
            /\ \A j \in 1..(i - 1) : kw[j][1] \in DOMAIN d
    ELSE Len(kw) + 1

\* The id the entry holds once the first i items of kw are assigned.
TidAt(d, kw, i) ==
    IF \E j \in 1..i : kw[j][1] = "_tid"
    THEN kw[CHOOSE j \in 1..i : kw[j][1] = "_tid"][2]
    ELSE d["_tid"]

NamesBefore(kw, k) == {kw[i][1] : i \in 1..(k - 1)}

C3_Original ==
    \A x, y \in DOMAIN objs :
       /\ x # y => <<objs[x].cls, objs[x].d["_tid"]>> # <<objs[y].cls, objs[y].d["_tid"]>>
       /\ entry_eq(objs[x], objs[y]) <=>
             (objs[x].cls = objs[y].cls /\ objs[x].d["_tid"] = objs[y].d["_tid"])
       /\ entry_eq(objs[x], objs[y]) <=> entry_hash(objs[x]) = entry_hash(objs[y])

Constructions == {"construct", "construct_group", "construct_link", "reset"}

NoDuplicates(seq) == \A i, j \in DOMAIN seq : i # j => seq[i] # seq[j]

\* C8: a construction or reset that reaches the container takes the next id,
\* then validates, then records the creation of that id; a rejected one stops
\* after validate and writes no record, and nothing else writes one.  So every
\* record names an id allocated before, no id is recorded twice, and a
\* construction or reset that returns has exactly one record, for its own id.
C8_CreationOrder ==
    [][/\ IF ret'.op \in Constructions /\ ret'.calls # <<>>
          THEN LET c == ret'.calls IN
               /\ next_id' = next_id + 1
               /\ c[1] = <<"get_next_id", next_id, "">>
               /\ c[2] = <<"validate", next_id, "">>
               /\ IF ret'.err = "AdmissionRejected"
                  THEN Len(c) = 2 /\ creation_records' = creation_records
                  ELSE /\ Len(c) = 3
                       /\ c[3] = <<"add_entry_creation_record", next_id, "">>
                       /\ creation_records' = Append(creation_records, next_id)
               /\ ret'.err = "none" =>
                     /\ objs'[ret'.self].d["_tid"] = next_id
                     /\ Cardinality({i \in DOMAIN creation_records' :
                                        creation_records'[i] = next_id}) = 1
          ELSE creation_records' = creation_records /\ next_id' = next_id
       /\ \A i \in DOMAIN creation_records' : creation_records'[i] < next_id'
       /\ NoDuplicates(creation_records')]_vars

\* A rejected construction took id 1 and left no record; the next one, which
\* the container admitted, has the only record.
C8_Witness ==
    /\ ret.op \in Constructions
    /\ ret.err = "none"
    /\ next_id = 3
    /\ creation_records = <<2>>
    /\ objs[ret.self].d["_tid"] = 2

FirstInvalid(T, cands) ==
    IF \E i \in DOMAIN cands : ~isinstance(objs[cands[i]], T)
    THEN CHOOSE i \in DOMAIN cands :
            /\ ~isinstance(objs[cands[i]], T)
            /\ \A j \in 1..(i - 1) : isinstance(objs[cands[j]], T)
    ELSE Len(cands) + 1

\* The ids of the first k candidates.
IdsOf(cands, k) == {objs[cands[i]].d["_tid"] : i \in 1..k}

Members(o) == Range(o.d["_members"])

Adds == {"add_member", "add_members"}

\* C2: an add of one candidate to a group with member type T succeeds if and
\* only if the candidate is an instance of T; every add leaves in the member
\* set what was there and the ids of the candidates it accepted, and nothing
\* else; a constructed group holds the ids of its initial members; and no id
\* is ever held twice.
C2_SetSemantics ==
    [][/\ ret'.op \in Adds =>
             LET g == ret'.self
                 cands == ret'.args
                 k == FirstInvalid(MemberType(objs[g].cls), cands) IN
             /\ ret'.op = "add_member" =>
                   (ret'.err = "none" <=>
                       isinstance(objs[cands[1]], MemberType(objs[g].cls)))
             /\ Members(objs'[g]) = Members(objs[g]) \cup IdsOf(cands, k - 1)
             /\ ret'.n = k - 1
       /\ (ret'.op = "construct_group" /\ ret'.err = "none") =>
             Members(objs'[ret'.self]) = IdsOf(ret'.args, Len(ret'.args))
       /\ \A o \in DOMAIN objs' :
             objs'[o].cls \in GroupClasses =>
                /\ NoDuplicates(objs'[o].d["_members"])
                /\ Len(objs'[o].d["_members"]) = Cardinality(Members(objs'[o]))]_vars

\* The same entry added twice in one call to a group that held another one:
\* two members.
C2_Witness ==
    /\ ret.op = "add_members"
    /\ ret.err = "none"
    /\ Len(ret.args) = 2
    /\ ret.args[1] = ret.args[2]
    /\ Len(objs[ret.self].d["_members"]) = 2

\* A call that is given a candidate of the wrong type and gets as far as
\* add_members.
Mismatch ==
    /\ ret'.op \in Adds \cup {"construct_group"}
    /\ ret'.err # "AdmissionRejected"
    /\ LET cls == IF ret'.op \in Adds THEN objs[ret'.self].cls ELSE "G" IN
       FirstInvalid(MemberType(cls), ret'.args) <= Len(ret'.args)

\* C7 as stated: an add that is given a candidate of the wrong type fails with
\* the type-mismatch error and the member set is what it was before the call.
C7_Original ==
    [][Mismatch =>
          /\ ret'.err = "TypeMismatch"
          /\ ret'.op \in Adds => Members(objs'[ret'.self]) = Members(objs[ret'.self])
          /\ ret'.op = "construct_group" => objs' = objs]_vars

\* C7 as amended: an add that is given a candidate of the wrong type fails with
\* the type-mismatch error at the first such candidate; the member set is what
\* it was before the call together with the ids of the candidates that come
\* before that one, so add_member leaves it as it was; a constructor that
\* fails this way hands out no group.
C7_Amended ==
    [][Mismatch =>
          LET cls == IF ret'.op \in Adds THEN objs[ret'.self].cls ELSE "G"
              k == FirstInvalid(MemberType(cls), ret'.args) IN
          /\ ret'.err = "TypeMismatch"
          /\ ret'.n = k - 1
          /\ ret'.op \in Adds =>
                Members(objs'[ret'.self]) =
                   Members(objs[ret'.self]) \cup IdsOf(ret'.args, k - 1)
          /\ ret'.op = "add_member" =>
                Members(objs'[ret'.self]) = Members(objs[ret'.self])
          /\ ret'.op = "construct_group" => objs' = objs]_vars

\* A bulk add that took one candidate and failed at the second.
C7_Witness ==
    /\ ret.op = "add_members"
    /\ ret.err = "TypeMismatch"
    /\ ret.n = 1
    /\ Len(ret.args) = 2
    /\ objs[ret.args[1]].d["_tid"] \in Members(objs[ret.self])

\* C9 as stated: the entry's own modified-fields set is empty after a
\* construction, a reset and a deserialization, and a set_fields call that
\* returns adds to it exactly the names it assigned.
C9_Original ==
    [][/\ (ret'.op \in Constructions \cup {"setstate"} /\ ret'.err = "none") =>
             objs'[ret'.self].d["_Entry__field_modified"] = {}
       /\ (ret'.op = "set_fields" /\ ret'.err = "none") =>
             objs'[ret'.self].d["_Entry__field_modified"] =
                objs[ret'.self].d["_Entry__field_modified"]
                   \cup {ret'.args[i][1] : i \in DOMAIN ret'.args}]_vars
RoundTrip(o) == setstate(EmptyDict, getstate(o.d).state)

\* C4 as stated: every entry of every reachable state can be serialized, the
\* snapshot holds neither the back-reference nor the modified-fields set, and
\* the entry rebuilt from it has every other attribute of the original (the
\* embedding as the same sequence of numbers), no back-reference and an empty
\* modified-fields set; __getstate__ leaves the entry as it was.
C4_Original ==
    [][/\ \A o \in DOMAIN objs' :
             LET d == objs'[o].d
                 r == getstate(d) IN
             /\ r.err = "none"
             /\ DOMAIN r.state = DOMAIN d \ {"_Entry__pack", "_Entry__field_modified"}
             /\ DOMAIN RoundTrip(objs'[o]) = DOMAIN r.state \cup {"_Entry__field_modified"}
             /\ RoundTrip(objs'[o])["_Entry__field_modified"] = {}
             /\ \A k \in DOMAIN r.state :
                   IF k = "_embedding"
                   THEN RoundTrip(objs'[o])[k].vals = d[k].vals
                   ELSE RoundTrip(objs'[o])[k] = d[k]
       /\ ret'.op = "getstate" => ret'.err = "none" /\ objs' = objs]_vars

\* C5 as stated: get_members on a group without a container, one rebuilt by
\* __setstate__ included, fails with the unattached error; with a container it
\* returns the entries the container resolves the member ids to.
C5_Original ==
    [][ret'.op = "get_members" =>
          LET d == objs[ret'.self].d IN
          IF has_pack(d)
          THEN ret'.err = "none" =>
                  ret'.res = {get_entry(m) : m \in Range(d["_members"])}
          ELSE ret'.err = "Unattached"]_vars

Resolved(x) == get_endpoint(x.d, "_parent") # 0 /\ get_endpoint(x.d, "_child") # 0

\* C6 as stated: two groups of one type with the same member ids are equal
\* and hash equally, in whatever order the ids were added, and so are two
\* links of one type with equal parents and equal children.
C6_Original ==
    \A x, y \in DOMAIN objs :
       /\ (/\ objs[x].cls \in GroupClasses
           /\ objs[y].cls = objs[x].cls
           /\ Members(objs[x]) = Members(objs[y])) =>
              /\ group_eq(objs[x], objs[y])
              /\ group_hash(objs[x]) = group_hash(objs[y])
       /\ (/\ objs[x].cls \in LinkClasses
           /\ objs[y].cls = objs[x].cls
           /\ Resolved(objs[x]) /\ Resolved(objs[y])
           /\ get_endpoint(objs[x].d, "_parent") = get_endpoint(objs[y].d, "_parent")
           /\ get_endpoint(objs[x].d, "_child") = get_endpoint(objs[y].d, "_child")) =>
              /\ link_eq(objs[x], objs[y])
              /\ link_hash(objs[x]) = link_hash(objs[y])

====
